---- MODULE Spec2Model ----
(***************************************************************************)
(* A model of scraping_data_website_kompas.py: the homepage link           *)
(* collector, the per-article metadata extractor and the driver loop of    *)
(* main with its export step.                                              *)
(*                                                                         *)
(* Text is a finite sequence of one-character strings, so that str.strip() *)
(* and emptiness tests are computed and not assumed.  A URL is the record  *)
(* urlparse() would return for it: scheme, netloc (a sequence of labels),  *)
(* path (a sequence of segments, all paths rooted) and fragment.           *)
(***************************************************************************)
EXTENDS Integers, Sequences, FiniteSets, TLC

\* ------------------------------------------------------------------ bounds
\* Longest text drawn for an attribute or an element's text.
MaxLen == 2
\* Most <a> elements on a homepage.
MaxAnchors == 2
\* MAX_ARTICLES of main (50 in the source), scaled down with the homepage.
MAX_ARTICLES == 2
\* The anchor-text threshold of the heuristic pass: len(text) > 30.
TEXT_MIN == 30

\* ------------------------------------------------------------------- text
Chars == {" ", "a"}

RECURSIVE StrsOfLen(_)
StrsOfLen(n) ==
    IF n = 0 THEN {<<>>}
    ELSE {Append(s, c) : s \in StrsOfLen(n - 1), c \in Chars}

Str == UNION {StrsOfLen(n) : n \in 0..MaxLen}

RECURSIVE LStrip(_)
LStrip(s) == IF s # <<>> /\ Head(s) = " " THEN LStrip(Tail(s)) ELSE s

RECURSIVE RStrip(_)
RStrip(s) ==
    IF s # <<>> /\ s[Len(s)] = " " THEN RStrip(SubSeq(s, 1, Len(s) - 1)) ELSE s

\* str.strip()
Strip(s) == RStrip(LStrip(s))

\* ------------------------------------------------------------------- URLs
Url(scheme, netloc, path, frag) ==
    [scheme |-> scheme, netloc |-> netloc, path |-> path, frag |-> frag]

BASE_URL == Url("https", <<"www", "kompas", "com">>, <<>>, "")

\* The empty string as an href.
EmptyHref == Url("", <<>>, <<>>, "")

\* "/read/1", "/read/1#c", "/read/2", "/about", "//www.kompas.com/read/1",
\* "https://other.com/read/2" and "".
Hrefs ==
    { Url("", <<>>, <<"read", "1">>, ""),
      Url("", <<>>, <<"read", "1">>, "c"),
      Url("", <<>>, <<"read", "2">>, ""),
      Url("", <<>>, <<"about">>, ""),
      Url("", <<"www", "kompas", "com">>, <<"read", "1">>, ""),
      Url("https", <<"other", "com">>, <<"read", "2">>, ""),
      EmptyHref }

\* urllib.parse.urljoin(base, url) for rooted paths.
urljoin(base, url) ==
    IF url = EmptyHref THEN base
    ELSE IF url.scheme # "" THEN url
    ELSE IF url.netloc # <<>> THEN [url EXCEPT !.scheme = base.scheme]
    ELSE IF url.path = <<>> THEN [base EXCEPT !.frag = url.frag]
    ELSE Url(base.scheme, base.netloc, url.path, url.frag)

\* 'kompas.com' in netloc
InDomain(netloc) ==
    \E i \in 1..(Len(netloc) - 1) : netloc[i] = "kompas" /\ netloc[i + 1] = "com"

\* The section markers of the heuristic pass.
Markers == {"read", "travel", "sains", "internasional", "tekno", "health", "edu"}

\* '/read/' in path or '/travel/' in path or ...
HasMarker(path) == \E i \in 1..(Len(path) - 1) : path[i] \in Markers

\* l.split('#')[0]
StripFragment(u) == [u EXCEPT !.frag = ""]

\* ---------------------------------------------------------------- homepage
\* An <a> element in document order: whether it has an href and which,
\* whether it is the first href-bearing <a> of an <article> element, and
\* the length of its stripped text.  An anchor without href has no href
\* value and is never the one art.find('a', href=True) returns.
Anchors ==
    { [has_href |-> TRUE, href |-> u, art |-> a, textlen |-> n] :
        u \in Hrefs, a \in BOOLEAN, n \in {TEXT_MIN, TEXT_MIN + 1} }
    \cup
    { [has_href |-> FALSE, href |-> EmptyHref, art |-> FALSE, textlen |-> n] :
        n \in {TEXT_MIN, TEXT_MIN + 1} }

\* A homepage: its anchors in document order.
HomePage(anchors) == [anchors |-> anchors]

\* What get_soup returns on a RequestException.
None == [none |-> TRUE]

\* get_soup(url): requests.get raises MissingSchema, a RequestException,
\* for a URL without scheme; otherwise the request fails or yields the
\* parsed document.
get_soup(url, up, served) ==
    IF url.scheme = "" \/ ~up THEN None ELSE served

\* Pass 1: for art in soup.find_all('article'): a = art.find('a', href=True)
StructuralLinksFirstOnly(soup) ==
    { urljoin(BASE_URL, soup.anchors[i].href) :
        i \in {j \in 1..Len(soup.anchors) :
                  /\ soup.anchors[j].art
                  /\ \A k \in 1..(j - 1) : ~soup.anchors[k].art} }
StructuralLinks(soup) ==
    { urljoin(BASE_URL, soup.anchors[i].href) :
        i \in {j \in 1..Len(soup.anchors) : soup.anchors[j].art} }

\* The href pass 2 adds for one anchor, as a set of at most one URL.
HeuristicLinkAnyHost(a) ==
    IF ~a.has_href \/ a.href = EmptyHref THEN {}
    ELSE LET href == IF a.href.netloc = <<>>
                     THEN urljoin(BASE_URL, a.href) ELSE a.href
         IN  IF HasMarker(href.path) THEN {href}
             ELSE IF a.textlen > TEXT_MIN THEN {href}
             ELSE {}
HeuristicLink(a) ==
    IF ~a.has_href \/ a.href = EmptyHref THEN {}
    ELSE LET href == IF a.href.netloc = <<>>
                     THEN urljoin(BASE_URL, a.href) ELSE a.href
         IN  IF ~InDomain(href.netloc) THEN {}
             ELSE IF HasMarker(href.path) THEN {href}
             ELSE IF a.textlen > TEXT_MIN THEN {href}
             ELSE {}

HeuristicLinks(soup) ==
    UNION {HeuristicLink(soup.anchors[i]) : i \in 1..Len(soup.anchors)}

\* The set `links` before cleaning.
LinkSet(soup) == StructuralLinks(soup) \cup HeuristicLinks(soup)

\* The orders in which iterating a Python set of strings may yield it.
SetOrders(S) ==
    {f \in [1..Cardinality(S) -> S] : \A i, j \in DOMAIN f : f[i] = f[j] => i = j}

\* list(dict.fromkeys(s))
RECURSIVE Dedup(_)
Dedup(s) ==
    IF s = <<>> THEN <<>>
    ELSE LET r == Dedup(SubSeq(s, 1, Len(s) - 1))
             x == s[Len(s)]
         IN  IF \E i \in 1..Len(r) : r[i] = x THEN r ELSE Append(r, x)

\* collect_article_links_from_home, given what get_soup returned and the
\* order in which the set `links` is iterated.
collect_article_links_from_home(soup, order) ==
    IF soup = None THEN <<>>
    ELSE LET cleaned == [i \in 1..Len(order) |-> StripFragment(order[i])]
         IN  Dedup(cleaned)

\* ------------------------------------------------------------ article page
\* What the extractor's soup.find calls return on an article page.  A <meta>
\* element: found or not, with a content attribute or not, and its value.
Meta(tag, attr, val) == [tag |-> tag, attr |-> attr, val |-> val]
NoMeta == Meta(FALSE, FALSE, <<>>)
MetaTags ==
    {NoMeta, Meta(TRUE, FALSE, <<>>)} \cup {Meta(TRUE, TRUE, s) : s \in Str}

\* An element read with get_text(strip=True): <title>, <p>, class 'author'.
TextTag(tag, text) == [tag |-> tag, text |-> text]
NoText == TextTag(FALSE, <<>>)
TextTags == {NoText} \cup {TextTag(TRUE, s) : s \in Str}

\* The first <time>: its datetime attribute and its text.
TimeTag(tag, attr, val, text) ==
    [tag |-> tag, attr |-> attr, val |-> val, text |-> text]
NoTime == TimeTag(FALSE, FALSE, <<>>, <<>>)
TimeTags ==
    {NoTime} \cup {TimeTag(TRUE, FALSE, <<>>, t) : t \in Str}
             \cup {TimeTag(TRUE, TRUE, v, t) : v \in Str, t \in Str}

\* The first <img>: its src attribute, one of "", "/img/1" and
\* "https://cdn.other.com/img/2".
ImgTag(tag, attr, src) == [tag |-> tag, attr |-> attr, src |-> src]
NoImg == ImgTag(FALSE, FALSE, EmptyHref)
ImgSrcs ==
    { EmptyHref,
      Url("", <<>>, <<"img", "1">>, ""),
      Url("https", <<"cdn", "other", "com">>, <<"img", "2">>, "") }
ImgTags == {NoImg, ImgTag(TRUE, FALSE, EmptyHref)}
               \cup {ImgTag(TRUE, TRUE, u) : u \in ImgSrcs}

\* A URL written out, as the text urljoin returns.
UrlText(u) ==
    <<u.scheme, "://">> \o u.netloc \o <<"/">> \o u.path \o <<"#", u.frag>>

\* tag and tag.get('content'): the element was found and the attribute is a
\* non-empty string.
HasContent(e) == e.tag /\ e.attr /\ e.val # <<>>

\* The sentinels.
NO_TITLE == <<"Tidak ada judul">>
NO_SUMMARY == <<"Tidak ada ringkasan">>
NO_AUTHOR == <<"Tidak diketahui">>
NO_TIME == <<"Tidak ada waktu">>
NO_IMAGE == <<"Tidak ada gambar">>

\* title: og:title, then <title>.
TitleOfSkipsTitleTag(s) ==
    IF HasContent(s.og_title) /\ Strip(s.og_title.val) # <<>>
    THEN Strip(s.og_title.val)
    ELSE NO_TITLE
TitleOf(s) ==
    IF HasContent(s.og_title) /\ Strip(s.og_title.val) # <<>>
    THEN Strip(s.og_title.val)
    ELSE IF s.title_tag.tag THEN Strip(s.title_tag.text) ELSE NO_TITLE

\* summary: meta description, then og:description, then the first <p>.
SummaryOf(s) ==
    IF HasContent(s.meta_desc) THEN Strip(s.meta_desc.val)
    ELSE IF HasContent(s.og_desc) THEN Strip(s.og_desc.val)
    ELSE IF s.p.tag THEN Strip(s.p.text) ELSE NO_SUMMARY

\* author: meta author, then article:author, then class 'read__author' or
\* class 'author'.  A Tag is always truthy, so `or` yields the first found.
AuthorOf(s) ==
    IF HasContent(s.meta_author) THEN Strip(s.meta_author.val)
    ELSE IF HasContent(s.art_author) THEN Strip(s.art_author.val)
    ELSE LET a_tag == IF s.read__author.tag THEN s.read__author
                      ELSE s.author_cls
         IN  IF a_tag.tag THEN Strip(a_tag.text) ELSE NO_AUTHOR

\* publication_time: article:published_time, then <time datetime>, then the
\* text of <time>.
PublicationTimeOf(s) ==
    IF HasContent(s.meta_time) THEN Strip(s.meta_time.val)
    ELSE IF HasContent(s.time_tag) THEN Strip(s.time_tag.val)
    ELSE IF s.time_tag.tag THEN Strip(s.time_tag.text)
    ELSE NO_TIME

\* image_url: og:image, then the first <img> src joined to the article URL.
ImageUrlOf(s, article_url) ==
    IF HasContent(s.og_image) THEN Strip(s.og_image.val)
    ELSE IF s.img_tag.tag /\ s.img_tag.attr /\ s.img_tag.src # EmptyHref
    THEN UrlText(urljoin(article_url, s.img_tag.src))
    ELSE NO_IMAGE

\* extract_article_metadata, given what get_soup returned.  `if not soup`
\* is taken only for None: a BeautifulSoup object is always truthy.
extract_article_metadata_strict(s, article_url) ==
    IF s = None \/ ~s.og_title.tag THEN None
    ELSE [ title |-> TitleOf(s),
           link |-> article_url,
           publication_time |-> PublicationTimeOf(s),
           author |-> AuthorOf(s),
           image_url |-> ImageUrlOf(s, article_url),
           summary |-> SummaryOf(s) ]
extract_article_metadata(s, article_url) ==
    IF s = None THEN None
    ELSE [ title |-> TitleOf(s),
           link |-> article_url,
           publication_time |-> PublicationTimeOf(s),
           author |-> AuthorOf(s),
           image_url |-> ImageUrlOf(s, article_url),
           summary |-> SummaryOf(s) ]

\* The page with none of the elements the extractor looks for.
EmptyPage ==
    [ og_title |-> NoMeta, title_tag |-> NoText,
      meta_desc |-> NoMeta, og_desc |-> NoMeta, p |-> NoText,
      meta_author |-> NoMeta, art_author |-> NoMeta,
      read__author |-> NoText, author_cls |-> NoText,
      meta_time |-> NoMeta, time_tag |-> NoTime,
      og_image |-> NoMeta, img_tag |-> NoImg ]

\* Pages on which only the sources of one field are set.
TitlePage(a, b) == [EmptyPage EXCEPT !.og_title = a, !.title_tag = b]
SummaryPage(a, b, c) ==
    [EmptyPage EXCEPT !.meta_desc = a, !.og_desc = b, !.p = c]
AuthorPage(a, b, c, d) ==
    [EmptyPage EXCEPT !.meta_author = a, !.art_author = b,
                      !.read__author = c, !.author_cls = d]
TimePage(a, b) == [EmptyPage EXCEPT !.meta_time = a, !.time_tag = b]
ImagePage(a, b) == [EmptyPage EXCEPT !.og_image = a, !.img_tag = b]

\* The page on which element i of the thirteen is present, with a padded
\* value, exactly when b[i].
Padded == <<" ", "a">>
PresencePage(b) ==
    [ og_title |-> IF b[1] THEN Meta(TRUE, TRUE, Padded) ELSE NoMeta,
      title_tag |-> IF b[2] THEN TextTag(TRUE, Padded) ELSE NoText,
      meta_desc |-> IF b[3] THEN Meta(TRUE, TRUE, Padded) ELSE NoMeta,
      og_desc |-> IF b[4] THEN Meta(TRUE, TRUE, Padded) ELSE NoMeta,
      p |-> IF b[5] THEN TextTag(TRUE, Padded) ELSE NoText,
      meta_author |-> IF b[6] THEN Meta(TRUE, TRUE, Padded) ELSE NoMeta,
      art_author |-> IF b[7] THEN Meta(TRUE, TRUE, Padded) ELSE NoMeta,
      read__author |-> IF b[8] THEN TextTag(TRUE, Padded) ELSE NoText,
      author_cls |-> IF b[9] THEN TextTag(TRUE, Padded) ELSE NoText,
      meta_time |-> IF b[10] THEN Meta(TRUE, TRUE, Padded) ELSE NoMeta,
      time_tag |-> IF b[11] THEN TimeTag(TRUE, TRUE, Padded, Padded)
                   ELSE NoTime,
      og_image |-> IF b[12] THEN Meta(TRUE, TRUE, Padded) ELSE NoMeta,
      img_tag |-> IF b[13]
                  THEN ImgTag(TRUE, TRUE, Url("", <<>>, <<"img", "1">>, ""))
                  ELSE NoImg ]

\* The article URLs handed to the extractor on its own.
ArticleUrls ==
    { Url("https", <<"www", "kompas", "com">>, <<"read", "1">>, ""),
      Url("", <<"www", "kompas", "com">>, <<"read", "1">>, "") }

\* The article pages the site serves during a whole run.
SamplePages ==
    { EmptyPage,
      [EmptyPage EXCEPT !.og_title = Meta(TRUE, TRUE, Padded),
                        !.img_tag = ImgTag(TRUE, TRUE,
                                           Url("", <<>>, <<"img", "1">>, ""))] }

VARIABLES
    pc,             \* "start", "collected", "loop", "export", "done";
                    \* "extract", "extracted" for the extractor on its own
    served,         \* the document the site serves for the pending request
    home,           \* soup of collect_article_links_from_home
    article_links,  \* the list collect_article_links_from_home returned
    idx,            \* position of the for loop in article_links
    count,
    collected_data,
    article_url,    \* the argument of the last extract_article_metadata call
    soup,           \* soup of extract_article_metadata
    meta,           \* what the last extract_article_metadata call returned
    calls,          \* history: each extract call's link and whether it gave a record
    files,          \* the export files written
    printed         \* the kinds of message printed so far

vars == <<pc, served, home, article_links, idx, count, collected_data,
          article_url, soup, meta, calls, files, printed>>

\* --------------------------------------------------------------- the run
Init ==
    /\ pc = "start"
    /\ \E n \in 0..MaxAnchors :
         \E anchors \in [1..n -> Anchors] : served = HomePage(anchors)
    /\ home = None
    /\ article_links = <<>>
    /\ idx = 1
    /\ count = 0
    /\ collected_data = <<>>
    /\ article_url = BASE_URL
    /\ soup = None
    /\ meta = None
    /\ calls = <<>>
    /\ files = {}
    /\ printed = {}

\* collect_article_links_from_home(), called from main.  get_soup prints
\* the error on failure; the collector prints the number of links found.
Collect ==
    /\ pc = "start"
    /\ \E up \in BOOLEAN :
         /\ home' = get_soup(BASE_URL, up, served)
         /\ \E order \in SetOrders(IF home' = None THEN {} ELSE LinkSet(home')) :
              article_links' = collect_article_links_from_home(home', order)
         /\ printed' = IF home' = None THEN {"home_error"} ELSE {"found"}
    /\ served' = None
    /\ pc' = "collected"
    /\ UNCHANGED <<idx, count, collected_data, article_url, soup, meta,
                   calls, files>>

\* The collector has returned, its soup is gone; MAX_ARTICLES = 50; count = 0
LoopInit ==
    /\ pc = "collected"
    /\ home' = None
    /\ count' = 0
    /\ idx' = 1
    /\ pc' = "loop"
    /\ UNCHANGED <<served, article_links, collected_data, article_url, soup,
                   meta, calls, files, printed>>

\* if count >= MAX_ARTICLES
AtLimitOffByOne(c) == c > MAX_ARTICLES
AtLimit(c) == c >= MAX_ARTICLES

\* if not ('kompas.com' in urlparse(link).netloc)
SkippedNever(link) == FALSE
Skipped(link) == ~InDomain(link.netloc)

\* The for loop has run through article_links.
LoopEnd ==
    /\ pc = "loop"
    /\ idx > Len(article_links)
    /\ pc' = "export"
    /\ UNCHANGED <<served, home, article_links, idx, count, collected_data,
                   article_url, soup, meta, calls, files, printed>>

\* if count >= MAX_ARTICLES: break
LoopBreak ==
    /\ pc = "loop"
    /\ idx <= Len(article_links)
    /\ AtLimit(count)
    /\ pc' = "export"
    /\ UNCHANGED <<served, home, article_links, idx, count, collected_data,
                   article_url, soup, meta, calls, files, printed>>

\* if not ('kompas.com' in urlparse(link).netloc): continue
LoopSkip ==
    /\ pc = "loop"
    /\ idx <= Len(article_links)
    /\ ~AtLimit(count)
    /\ Skipped(article_links[idx])
    /\ idx' = idx + 1
    /\ UNCHANGED <<pc, served, home, article_links, count, collected_data,
                   article_url, soup, meta, calls, files, printed>>

\* What a loop iteration makes of collected_data, given extract's result.
AppendedOrLost(data, m) == IF m # None THEN Append(data, m) ELSE <<>>
Appended(data, m) == IF m # None THEN Append(data, m) ELSE data

\* meta = extract_article_metadata(link); if meta: append, count += 1
LoopProcess ==
    /\ pc = "loop"
    /\ idx <= Len(article_links)
    /\ ~AtLimit(count)
    /\ ~Skipped(article_links[idx])
    /\ \E up \in BOOLEAN, page \in SamplePages :
         LET link == article_links[idx]
             s == get_soup(link, up, page)
             m == extract_article_metadata(s, link)
         IN  /\ article_url' = link
             /\ soup' = s
             /\ meta' = m
             /\ calls' = Append(calls, [link |-> link, ok |-> m # None])
             /\ collected_data' = Appended(collected_data, m)
             /\ count' = IF m # None THEN count + 1 ELSE count
    /\ idx' = idx + 1
    /\ UNCHANGED <<pc, served, home, article_links, files, printed>>

\* The files main writes when collected_data is empty.
FilesWhenEmptyAll == {"json", "csv"}
FilesWhenEmpty == {}

\* if not collected_data: print the no-data message and return
ExportNothing ==
    /\ pc = "export"
    /\ collected_data = <<>>
    /\ printed' = printed \cup {"no_data"}
    /\ files' = FilesWhenEmpty
    /\ pc' = "done"
    /\ UNCHANGED <<served, home, article_links, idx, count, collected_data,
                   article_url, soup, meta, calls>>

\* json.dump, df.to_csv, and df.to_excel inside try/except
ExportFiles ==
    /\ pc = "export"
    /\ collected_data # <<>>
    /\ \E excel_ok \in BOOLEAN :
         /\ files' = {"json", "csv"} \cup (IF excel_ok THEN {"xlsx"} ELSE {})
         /\ printed' = printed \cup {"json", "csv"}
                          \cup (IF excel_ok THEN {"xlsx"} ELSE {"xlsx_warning"})
    /\ pc' = "done"
    /\ UNCHANGED <<served, home, article_links, idx, count, collected_data,
                   article_url, soup, meta, calls>>

Next ==
    \/ Collect
    \/ LoopInit
    \/ LoopEnd
    \/ LoopBreak
    \/ LoopSkip
    \/ LoopProcess
    \/ ExportNothing
    \/ ExportFiles

Spec == Init /\ [][Next]_vars

\* main is one sequential thread: a step that can be taken is taken.
LiveSpec == Spec /\ WF_vars(Next)

\* ---------------------------------------------- the extractor on its own
ExtractInit ==
    /\ pc = "extract"
    /\ \/ \E a \in MetaTags, b \in TextTags : served = TitlePage(a, b)
       \/ \E a \in MetaTags, b \in MetaTags, c \in TextTags :
            served = SummaryPage(a, b, c)
       \/ \E a \in MetaTags, b \in MetaTags, c \in TextTags, d \in TextTags :
            served = AuthorPage(a, b, c, d)
       \/ \E a \in MetaTags, b \in TimeTags : served = TimePage(a, b)
       \/ \E a \in MetaTags, b \in ImgTags : served = ImagePage(a, b)
       \/ \E b \in [1..13 -> BOOLEAN] : served = PresencePage(b)
    /\ article_url \in ArticleUrls
    /\ home = None
    /\ article_links = <<>>
    /\ idx = 1
    /\ count = 0
    /\ collected_data = <<>>
    /\ soup = None
    /\ meta = None
    /\ calls = <<>>
    /\ files = {}
    /\ printed = {}

\* One call extract_article_metadata(article_url).
ExtractCall ==
    /\ pc = "extract"
    /\ \E up \in BOOLEAN :
         /\ soup' = get_soup(article_url, up, served)
         /\ meta' = extract_article_metadata(soup', article_url)
    /\ pc' = "extracted"
    /\ UNCHANGED <<served, home, article_links, idx, count, collected_data,
                   article_url, calls, files, printed>>

ExtractNext == ExtractCall

SpecExtract == ExtractInit /\ [][ExtractNext]_vars

\* ------------------------------------------------------------- properties
\* The extract calls that returned a record.
OkCalls == {i \in 1..Len(calls) : calls[i].ok}

\* The URLs anchor k of the homepage h contributes, cleaned.
Contributed(h, k) ==
    LET a == h.anchors[k]
    IN  {StripFragment(u) :
           u \in (IF a.art THEN {urljoin(BASE_URL, a.href)} ELSE {})
                    \cup HeuristicLink(a)}

\* The first anchor of h, in document order, that contributes u.
FirstSeen(h, u) ==
    CHOOSE k \in 1..Len(h.anchors) :
        /\ u \in Contributed(h, k)
        /\ \A j \in 1..(k - 1) : u \notin Contributed(h, j)

NoRepeat(s) == \A i, j \in 1..Len(s) : s[i] = s[j] => i = j

\* The fragment-stripped absolute URLs of the <article> containers' links.
ContainerUrls(h) ==
    { StripFragment(urljoin(BASE_URL, h.anchors[k].href)) :
        k \in {j \in 1..Len(h.anchors) : h.anchors[j].art} }

\* The number of <article> elements of h that hold an <a> with an href.
Containers(h) == Cardinality({k \in 1..Len(h.anchors) : h.anchors[k].art})

\* C1 as stated: when the collector returned more links than MAX_ARTICLES,
\* the finished run has called extract_article_metadata exactly
\* MAX_ARTICLES times.
C1_ExactlyMaxCalls ==
    (pc = "done" /\ Len(article_links) > MAX_ARTICLES)
        => Len(calls) = MAX_ARTICLES

\* C1 as amended: when the collector returned more links than
\* MAX_ARTICLES, at most MAX_ARTICLES calls return a record, count is the
\* number of such calls, and no call is made after the MAX_ARTICLES-th of
\* them: once count = MAX_ARTICLES the last call made is one that returned
\* a record.
C1_AtMostMaxRecords ==
    Len(article_links) > MAX_ARTICLES =>
        /\ Cardinality(OkCalls) = count
        /\ count <= MAX_ARTICLES
        /\ count = MAX_ARTICLES => calls[Len(calls)].ok

\* A finished run that stopped at the bound with a link left over.
C1_Witness ==
    /\ pc = "done"
    /\ Len(article_links) > MAX_ARTICLES
    /\ count = MAX_ARTICLES
    /\ idx <= Len(article_links)

\* C2 as stated: the returned list has no repeated URL and lists the URLs
\* in the order in which the document first shows them.
C2_FirstSeenOrder ==
    (pc = "collected" /\ home # None) =>
        /\ NoRepeat(article_links)
        /\ \A i, j \in 1..Len(article_links) :
             i < j => FirstSeen(home, article_links[i])
                        <= FirstSeen(home, article_links[j])

\* C3: extract_article_metadata returns None exactly when get_soup
\* returned None.
C3_NoneIffFetchFailed ==
    pc = "extracted" => (meta = None <=> soup = None)

\* A page with none of the elements yields a record all the same.
C3_Witness ==
    /\ pc = "extracted"
    /\ soup = EmptyPage
    /\ meta # None

\* The text sources of one field that yield nothing.
NoValue(e) == ~HasContent(e)
TextMissing(e) == ~e.tag \/ Strip(e.text) = <<>>

\* C4 as stated: every field of a returned record is a non-empty string,
\* and is the sentinel when no source of its chain yields a non-empty value.
C4_FieldsPopulated ==
    (pc = "extracted" /\ meta # None) =>
        /\ meta.title # <<>>
        /\ meta.summary # <<>>
        /\ meta.author # <<>>
        /\ meta.publication_time # <<>>
        /\ meta.image_url # <<>>
        /\ (NoValue(soup.og_title) /\ TextMissing(soup.title_tag))
              => meta.title = NO_TITLE
        /\ (NoValue(soup.meta_desc) /\ NoValue(soup.og_desc) /\ TextMissing(soup.p))
              => meta.summary = NO_SUMMARY
        /\ (NoValue(soup.meta_author) /\ NoValue(soup.art_author)
              /\ TextMissing(soup.read__author) /\ TextMissing(soup.author_cls))
              => meta.author = NO_AUTHOR
        /\ (NoValue(soup.meta_time) /\ NoValue(soup.time_tag)
              /\ TextMissing(soup.time_tag))
              => meta.publication_time = NO_TIME
        /\ (NoValue(soup.og_image)
              /\ ~(soup.img_tag.tag /\ soup.img_tag.attr
                     /\ soup.img_tag.src # EmptyHref))
              => meta.image_url = NO_IMAGE

\* C5: when the primary source of a field is absent or empty and the
\* secondary source has a non-empty value, the field is the secondary
\* source's value (stripped; joined to the article URL for the image), not
\* the sentinel and not a lower source.
C5_SecondarySourceWins ==
    (pc = "extracted" /\ meta # None) =>
        /\ (NoValue(soup.og_title) /\ soup.title_tag.tag
              /\ soup.title_tag.text # <<>>)
              => /\ meta.title = Strip(soup.title_tag.text)
                 /\ meta.title # NO_TITLE
        /\ (NoValue(soup.meta_desc) /\ HasContent(soup.og_desc))
              => /\ meta.summary = Strip(soup.og_desc.val)
                 /\ meta.summary # NO_SUMMARY
        /\ (NoValue(soup.meta_author) /\ HasContent(soup.art_author))
              => /\ meta.author = Strip(soup.art_author.val)
                 /\ meta.author # NO_AUTHOR
        /\ (NoValue(soup.meta_time) /\ HasContent(soup.time_tag))
              => /\ meta.publication_time = Strip(soup.time_tag.val)
                 /\ meta.publication_time # NO_TIME
        /\ (NoValue(soup.og_image) /\ soup.img_tag.tag /\ soup.img_tag.attr
              /\ soup.img_tag.src # EmptyHref)
              => /\ meta.image_url
                      = UrlText(urljoin(article_url, soup.img_tag.src))
                 /\ meta.image_url # NO_IMAGE

\* A page whose description is empty, with og:description and a <p> of
\* another text: the summary is og:description's.
C5_Witness ==
    /\ pc = "extracted"
    /\ meta # None
    /\ soup.meta_desc = Meta(TRUE, TRUE, <<>>)
    /\ soup.og_desc = Meta(TRUE, TRUE, <<"a">>)
    /\ soup.p = TextTag(TRUE, <<" ">>)
    /\ meta.summary = <<"a">>

\* C6 as stated: a homepage with N article containers that hold a link
\* yields at least N URLs.
C6_AtLeastN ==
    (pc = "collected" /\ home # None)
        => Len(article_links) >= Containers(home)

\* C6 as amended: the list holds, once each, every distinct
\* fragment-stripped absolute URL the containers' first links resolve to,
\* hence at least as many URLs as there are such distinct URLs.
C6_AtLeastDistinct ==
    (pc = "collected" /\ home # None) =>
        /\ NoRepeat(article_links)
        /\ \A u \in ContainerUrls(home) :
             /\ u.scheme # "" /\ u.netloc # <<>> /\ u.frag = ""
             /\ \E i \in 1..Len(article_links) : article_links[i] = u
        /\ Len(article_links) >= Cardinality(ContainerUrls(home))

\* Two containers whose links resolve to two URLs, neither of which the
\* heuristic pass accepts.
C6_Witness ==
    /\ pc = "collected"
    /\ home # None
    /\ Containers(home) = 2
    /\ Cardinality(ContainerUrls(home)) = 2
    /\ HeuristicLinks(home) = {}
    /\ Len(article_links) = 2

\* C7 as stated: every returned URL passes the target-domain check.
C7_AllInDomain ==
    pc = "collected" =>
        \A i \in 1..Len(article_links) : InDomain(article_links[i].netloc)

\* C7 as amended: every returned URL passes the target-domain check or is
\* the link of an <article> container, which the structural pass adds
\* unchecked.
C7_InDomainOrStructural ==
    (pc = "collected" /\ home # None) =>
        \A i \in 1..Len(article_links) :
            \/ InDomain(article_links[i].netloc)
            \/ article_links[i] \in ContainerUrls(home)

\* A list with a container's off-domain link and a heuristic link.
C7_Witness ==
    /\ pc = "collected"
    /\ home # None
    /\ \E i, j \in 1..Len(article_links) :
         /\ ~InDomain(article_links[i].netloc)
         /\ article_links[j] \notin ContainerUrls(home)

\* The links of the calls made so far.
CalledLinks == [i \in 1..Len(calls) |-> calls[i].link]

\* The links among the first n of article_links that pass the domain check.
RECURSIVE InDomainPrefix(_)
InDomainPrefix(n) ==
    IF n = 0 THEN <<>>
    ELSE IF InDomain(article_links[n].netloc)
         THEN Append(InDomainPrefix(n - 1), article_links[n])
         ELSE InDomainPrefix(n - 1)

\* C8: a call that returns None appends nothing, leaves the records and
\* count as they are and moves the loop to the next link; the links called
\* are all the in-domain links before the loop's position, in collected
\* order; and the run reaches its end.
C8_FailureDoesNotAbort ==
    /\ [][(calls' # calls /\ meta' = None) =>
            /\ collected_data' = collected_data
            /\ count' = count
            /\ idx' = idx + 1
            /\ pc' = "loop"]_vars
    /\ [](pc \in {"loop", "export", "done"}
            => CalledLinks = InDomainPrefix(idx - 1))
    /\ <>(pc = "done")

\* A finished run in which a call returned None and a later one a record.
C8_Witness ==
    /\ pc = "done"
    /\ \E i, j \in 1..Len(calls) : i < j /\ ~calls[i].ok /\ calls[j].ok
    /\ "json" \in files

\* C9: when the homepage cannot be fetched the collector returns the empty
\* list, no article page is fetched, no file is written, the run can always
\* go on until it is done, and it has then printed the no-data message.
C9_EmptyRun ==
    "home_error" \in printed =>
        /\ article_links = <<>>
        /\ calls = <<>>
        /\ collected_data = <<>>
        /\ files = {}
        /\ pc # "done" => ENABLED Next
        /\ pc = "done" => "no_data" \in printed

\* A finished run whose homepage request failed.
C9_Witness ==
    /\ pc = "done"
    /\ "home_error" \in printed
    /\ "no_data" \in printed

\* The position of u in article_links.
Pos(u) == CHOOSE i \in 1..Len(article_links) : article_links[i] = u

\* C10: count is the number of records and never exceeds MAX_ARTICLES; the
\* records' links are links of article_links in the same relative order,
\* each at most once; no link that fails the domain check is ever passed to
\* extract_article_metadata.
C10_DriverInvariant ==
    /\ count = Len(collected_data)
    /\ count <= MAX_ARTICLES
    /\ \A i \in 1..Len(collected_data) :
         \E k \in 1..Len(article_links) :
            article_links[k] = collected_data[i].link
    /\ \A i, j \in 1..Len(collected_data) :
         i < j => Pos(collected_data[i].link) < Pos(collected_data[j].link)
    /\ \A i \in 1..Len(calls) : InDomain(calls[i].link.netloc)

\* A finished run that skipped an off-domain link and then kept a record.
C10_Witness ==
    /\ pc = "done"
    /\ \E k \in 1..Len(article_links) :
         /\ ~InDomain(article_links[k].netloc)
         /\ \E i \in 1..Len(collected_data) :
              Pos(collected_data[i].link) > k

====
